---- MODULE Spec2Model ----
(***************************************************************************)
(* Cursor pagination for Mongoose (the general, secondary-sort capable     *)
(* variant of src/src/deep-merge.ts): the cursor codec, the direction      *)
(* resolver _getQuery, the filter builder getFiltersFromCursor and the     *)
(* orchestrator paginate, run against a document store whose find and      *)
(* countDocuments follow MongoDB's matching and sorting rules and whose    *)
(* calls can fail; and the primary-key-only variant of src/src/index.ts.   *)
(***************************************************************************)
EXTENDS Integers, Sequences, FiniteSets, TLC

\* Primary keys are 1..MaxKey: the ObjectIds of the collection, in their order.
MaxKey == 3
\* Secondary sort field values are the numbers 1..MaxVal (or null / missing).
MaxVal == 2
\* pagination.limit ranges over 1..MaxLimit.
MaxLimit == 2

Keys == 1 .. MaxKey
Limits == 1 .. MaxLimit

---------------------------------------------------------------------------
(* JavaScript / BSON values, all tagged with their type.                   *)

Undefined == [ty |-> "undefined"]
Null == [ty |-> "null"]
Num(n) == [ty |-> "number", n |-> n]
\* The text of number n, as JSON.stringify(n) writes it.
Str(n) == [ty |-> "string", digits |-> n]
\* The empty string: a falsy cursor option; as a token, the Base64 of an empty
\* text, which is not JSON.
EmptyString == [ty |-> "string", b64 |-> TRUE, text |-> [json |-> FALSE], empty |-> TRUE]
\* A text that is neither a number nor an id ("abc").
OtherString == [ty |-> "string", other |-> TRUE]
\* An ObjectId (_id) and its 24 hex character text (doc.id).
ObjectId(k) == [ty |-> "objectid", k |-> k]
HexString(k) == [ty |-> "string", hex24 |-> k]

\* Values the sort field of a stored document takes: a number, or null/missing.
FieldValues == {Num(n) : n \in 1 .. MaxVal} \cup {Null}

\* A stored document: _id, the secondary sort field f, and the field the
\* caller's base filter tests.
Documents == [_id : {ObjectId(k) : k \in Keys}, f : FieldValues, tag : BOOLEAN]

\* doc.id: mongoose's string getter of _id.
DocId(doc) == HexString(doc._id.k)

---------------------------------------------------------------------------
(* isObjectId / MongoIdSchema: a string of 24 hex characters.              *)
isObjectId(value) ==
  /\ value.ty = "string"
  /\ "hex24" \in DOMAIN value

MongoIdSchema(val) == isObjectId(val)

\* z.string({ coerce: true }): String(x).
CoerceString(x) ==
  IF x.ty = "string" THEN x
  ELSE IF x.ty = "number" THEN Str(x.n)
  ELSE OtherString

---------------------------------------------------------------------------
(* Cursor tokens.  A token is a string: either not Base64 at all, or the   *)
(* Base64 of a text; the text is either not JSON, or the JSON of a value.  *)

NotBase64 == [ty |-> "string", b64 |-> FALSE]
Base64(text) == [ty |-> "string", b64 |-> TRUE, text |-> text]
NotJson == [json |-> FALSE]
JsonText(value) == [json |-> TRUE, value |-> value]

\* A stringify that writes an undefined property as null.
JSONstringifyUndefinedAsNull(cursor) ==
  JsonText([ty |-> "object", id |-> cursor.id,
            v |-> IF cursor.v = Undefined THEN Null ELSE cursor.v])

\* JSON.stringify of a cursor object: a property whose value is undefined is
\* left out.
JSONstringify(cursor) ==
  JsonText(IF cursor.v = Undefined
           THEN [ty |-> "object", id |-> cursor.id]
           ELSE [ty |-> "object", id |-> cursor.id, v |-> cursor.v])

encodeCursor(cursor) == Base64(JSONstringify(cursor))

\* CursorSchema.safeParse: {success, data}, or the exception the transform
\* (JSON.parse) throws, which safeParse does not catch.
CursorSchema(encoded) ==
  IF ~("b64" \in DOMAIN encoded) \/ ~encoded.b64
    THEN [kind |-> "failure"]
  ELSE IF ~encoded.text.json
    THEN [kind |-> "throws"]
  ELSE LET obj == encoded.text.value IN
    IF obj.ty # "object" THEN [kind |-> "failure"]
    ELSE IF ~("id" \in DOMAIN obj) THEN [kind |-> "failure"]
    ELSE IF ~MongoIdSchema(obj.id) THEN [kind |-> "failure"]
    ELSE [kind |-> "success",
          data |-> [id |-> obj.id,
                    v |-> IF "v" \in DOMAIN obj THEN CoerceString(obj.v)
                          ELSE Undefined]]

\* What a call that throws yields.
Raised == [ty |-> "raised"]

decodeCursor(encoded) ==
  LET result == CursorSchema(encoded) IN
    IF result.kind = "throws" THEN Raised
    ELSE IF result.kind # "success" THEN Null
    ELSE result.data

\* stringifySortValue, for the values a sort field takes.
stringifySortValue(value) ==
  IF value = Undefined \/ value = Null THEN Undefined
  ELSE IF value.ty = "string" THEN value
  ELSE Str(value.n)

\* opts.parseSortValue: Number, or none given.
Parsers == {"Number", "none"}
NaN == [ty |-> "number", nan |-> TRUE]
ParseSortValue(parse, v) ==
  IF parse = "Number"
    THEN (IF "digits" \in DOMAIN v THEN Num(v.digits) ELSE NaN)
    ELSE v

---------------------------------------------------------------------------
(* Store filters, as the objects getFiltersFromCursor builds.              *)

Bool(b) == [ty |-> "boolean", b |-> b]
\* {} : matches every document.
EmptyFilter == [node |-> "all"]
\* { field: { op: val } }, and { field: val } with op "$eq".
Cmp(field, op, val) == [node |-> "cmp", field |-> field, op |-> op, val |-> val]
And(args) == [node |-> "and", args |-> args]
Or(args) == [node |-> "or", args |-> args]

\* opts.filters: none, or { tag: true }.
BaseFilters == {Undefined, Cmp("tag", "$eq", Bool(TRUE))}
SortFields == {"_id", "f"}
Orders == {"asc", "desc"}

\* The filter builder without the clause for equal sort values.
getFiltersWithoutTieBreak(cursor, order, sort, baseFilters) ==
  LET sortRules == IF sort.by = "_id" THEN << <<"_id", order[1]>> >>
                   ELSE << <<sort.by, order[1]>>, <<"_id", order[1]>> >>
      withBase(filter) == IF baseFilters # Undefined
                            THEN And(<<filter, baseFilters>>) ELSE filter
  IN IF cursor = Null THEN <<withBase(EmptyFilter), sortRules>>
     ELSE IF cursor.v # Undefined
       THEN <<withBase(Or(<<Cmp(sort.by, order[2],
                                ParseSortValue(sort.parse, cursor.v))>>)), sortRules>>
       ELSE <<withBase(Cmp("_id", order[2], cursor.id)), sortRules>>

\* getFiltersFromCursor: <<filter, sortRules>>; sortRules lists <<field, direction>>.
getFiltersFromCursor(cursor, order, sort, baseFilters) ==
  LET sortRules == IF sort.by = "_id" THEN << <<"_id", order[1]>> >>
                   ELSE << <<sort.by, order[1]>>, <<"_id", order[1]>> >>
      withBase(filter) == IF baseFilters # Undefined
                            THEN And(<<filter, baseFilters>>) ELSE filter
  IN IF cursor = Null THEN <<withBase(EmptyFilter), sortRules>>
     ELSE IF cursor.v # Undefined
       THEN LET parsedSortValue == ParseSortValue(sort.parse, cursor.v) IN
            <<withBase(Or(<<Cmp(sort.by, order[2], parsedSortValue),
                            And(<<Cmp(sort.by, "$eq", parsedSortValue),
                                  Cmp("_id", order[2], cursor.id)>>)>>)),
              sortRules>>
       ELSE <<withBase(Cmp("_id", order[2], cursor.id)), sortRules>>

\* A cursor option that is set: a non-empty string.
IsSet(token) == token # Undefined /\ token # EmptyString

\* The pairs with those of the two probes exchanged.
QueryOrderProbesSwapped(query) ==
  LET desc == query.order = "desc" IN
  [current |-> IF IsSet(query.prevCursor)
                 THEN (IF desc THEN <<1, "$gt">> ELSE <<-1, "$lt">>)
               ELSE IF IsSet(query.nextCursor)
                 THEN (IF desc THEN <<-1, "$lt">> ELSE <<1, "$gt">>)
               ELSE (IF desc THEN <<-1, "$gt">> ELSE <<1, "$lt">>),
   next |-> IF desc THEN <<-1, "$gt">> ELSE <<1, "$lt">>,
   prev |-> IF desc THEN <<1, "$lt">> ELSE <<-1, "$gt">>]

\* The three <<sort direction, operator>> pairs _getQuery resolves.
QueryOrder(query) ==
  LET desc == query.order = "desc" IN
  [current |-> IF IsSet(query.prevCursor)
                 THEN (IF desc THEN <<1, "$gt">> ELSE <<-1, "$lt">>)
               ELSE IF IsSet(query.nextCursor)
                 THEN (IF desc THEN <<-1, "$lt">> ELSE <<1, "$gt">>)
               ELSE (IF desc THEN <<-1, "$gt">> ELSE <<1, "$lt">>),
   next |-> IF desc THEN <<1, "$lt">> ELSE <<-1, "$gt">>,
   prev |-> IF desc THEN <<-1, "$gt">> ELSE <<1, "$lt">>]

\* The flag set for either cursor.
QueryReverseAnyCursor(query) == IsSet(query.prevCursor) \/ IsSet(query.nextCursor)

\* _getQuery's reverse flag.
QueryReverse(query) == IsSet(query.prevCursor)

\* The cursor taken from nextCursor first.
QueryCursorNextFirst(query) ==
  IF IsSet(query.nextCursor) THEN decodeCursor(query.nextCursor)
  ELSE IF IsSet(query.prevCursor) THEN decodeCursor(query.prevCursor)
  ELSE Null

\* The cursor _getQuery decodes: prevCursor before nextCursor.
QueryCursor(query) ==
  IF IsSet(query.prevCursor) THEN decodeCursor(query.prevCursor)
  ELSE IF IsSet(query.nextCursor) THEN decodeCursor(query.nextCursor)
  ELSE Null

\* _getQuery; Raised when decoding the cursor throws.
_getQuery(query, parse, baseFilters) ==
  LET cursor == QueryCursor(query)
      order == QueryOrder(query)
  IN IF cursor = Raised THEN Raised
     ELSE LET fs == getFiltersFromCursor(cursor, order.current,
                      [by |-> query.sortBy, parse |-> parse], baseFilters)
          IN [ty |-> "query", filter |-> fs[1], cursor |-> cursor, sort |-> fs[2],
              order |-> order, reverse |-> QueryReverse(query), limit |-> query.limit]

---------------------------------------------------------------------------
(* The store: Model.find and Model.countDocuments.                         *)

\* Mongoose casts the text of an id to the ObjectId it names.
CastObjectId(id) == ObjectId(id.hex24)

\* Comparison of a sort field with a query operand: only values of the same
\* BSON type compare; null and missing fields match no $gt / $lt on a number.
CompareField(value, op, val) ==
  IF op = "$eq" THEN value = val
  ELSE /\ value.ty = "number" /\ val.ty = "number"
       /\ "n" \in DOMAIN value /\ "n" \in DOMAIN val
       /\ IF op = "$gt" THEN value.n > val.n ELSE value.n < val.n

RECURSIVE Matches(_, _)
Matches(doc, filter) ==
  IF filter.node = "all" THEN TRUE
  ELSE IF filter.node = "and"
    THEN \A i \in 1 .. Len(filter.args) : Matches(doc, filter.args[i])
  ELSE IF filter.node = "or"
    THEN \E i \in 1 .. Len(filter.args) : Matches(doc, filter.args[i])
  ELSE IF filter.field = "_id"
    THEN LET k == CastObjectId(filter.val).k IN
         IF filter.op = "$gt" THEN doc._id.k > k
         ELSE IF filter.op = "$lt" THEN doc._id.k < k
         ELSE doc._id.k = k
  ELSE IF filter.field = "tag" THEN Bool(doc.tag) = filter.val
  ELSE CompareField(doc.f, filter.op, filter.val)

\* The rank of a document's field in MongoDB's sort order: null and missing
\* sort before every number.
SortKey(doc, field) ==
  IF field = "_id" THEN doc._id.k
  ELSE IF doc.f = Null THEN 0 ELSE doc.f.n

RECURSIVE ComesBefore(_, _, _)
ComesBefore(a, b, sortRules) ==
  IF sortRules = <<>> THEN FALSE
  ELSE LET field == sortRules[1][1]
           dir == sortRules[1][2]
           ka == SortKey(a, field)
           kb == SortKey(b, field)
       IN IF ka # kb THEN (IF dir = 1 THEN ka < kb ELSE ka > kb)
          ELSE ComesBefore(a, b, Tail(sortRules))

RECURSIVE SortDocs(_, _)
SortDocs(S, sortRules) ==
  IF S = {} THEN <<>>
  ELSE LET first == CHOOSE d \in S : \A o \in S \ {d} : ComesBefore(d, o, sortRules)
       IN <<first>> \o SortDocs(S \ {first}, sortRules)

Take(seq, n) == SubSeq(seq, 1, IF Len(seq) < n THEN Len(seq) ELSE n)

\* this.find(filter, projection, { sort, limit })
find(collection, filter, sort, limit) ==
  Take(SortDocs({d \in collection : Matches(d, filter)}, sort), limit)

\* this.countDocuments(filter)
countDocuments(collection, filter) ==
  Cardinality({d \in collection : Matches(d, filter)})

\* docs.reverse()
Reverse(seq) == [i \in 1 .. Len(seq) |-> seq[Len(seq) + 1 - i]]

---------------------------------------------------------------------------
(* paginate, between its awaits.                                           *)

\* doc[opts.pagination.sortBy], for a sortBy other than _id.
SortFieldOf(doc, sortBy) == doc.f

\* The cursor of a boundary document: { id, v }.
CursorOf(o, doc) ==
  [id |-> DocId(doc),
   v |-> IF o.pagination.sortBy # "_id"
           THEN stringifySortValue(SortFieldOf(doc, o.pagination.sortBy))
           ELSE Undefined]

\* The documents paginate holds once find has answered.
FetchedDocs(collection, q) ==
  LET found == find(collection, q.filter, q.sort, q.limit)
  IN IF q.reverse THEN Reverse(found) ELSE found

\* The next candidate of a page of any length.
NextCandidateAnyLength(o, fetched) == CursorOf(o, fetched[Len(fetched)])

\* The next candidate taken from the first document of the page.
NextCandidateOfFirst(o, fetched) ==
  IF Len(fetched) = o.pagination.limit THEN CursorOf(o, fetched[1]) ELSE Null

\* nextCursor before its probe: set only for a full page.
NextCandidate(o, fetched) ==
  IF Len(fetched) = o.pagination.limit
    THEN CursorOf(o, fetched[Len(fetched)]) ELSE Null

\* The prev candidate taken from the last document of the page.
PrevCandidateOfLast(o, fetched) == CursorOf(o, fetched[Len(fetched)])

\* prevCursor before its probe.
PrevCandidate(o, fetched) == CursorOf(o, fetched[1])

\* The filter of a boundary probe.
ProbeFilter(o, cursor, order) ==
  getFiltersFromCursor(cursor, order,
    [by |-> o.pagination.sortBy, parse |-> o.parseSortValue], o.filters)[1]

\* The value paginate returns.
Paginated(data, total, next, prev) ==
  [data |-> data, totalCount |-> total,
   nextCursor |-> IF next # Null THEN encodeCursor(next) ELSE Null,
   prevCursor |-> IF prev # Null THEN encodeCursor(prev) ELSE Null]

\* paginate on a collection nobody writes to while it runs.
paginate(collection, o) ==
  LET q == _getQuery(o.pagination, o.parseSortValue, o.filters) IN
  IF q = Raised THEN Raised
  ELSE
    LET fetched == FetchedDocs(collection, q) IN
    IF Len(fetched) = 0 THEN Paginated(fetched, 0, Null, Null)
    ELSE
      LET next0 == NextCandidate(o, fetched)
          nextCount == IF next0 # Null
                         THEN countDocuments(collection, ProbeFilter(o, next0, q.order.next))
                         ELSE 0
          prev0 == PrevCandidate(o, fetched)
          prevCount == countDocuments(collection, ProbeFilter(o, prev0, q.order.prev))
      IN Paginated(fetched, Len(fetched) + nextCount + prevCount,
                   IF nextCount = 0 THEN Null ELSE next0,
                   IF prevCount = 0 THEN Null ELSE prev0)

---------------------------------------------------------------------------
(* The primary-key-only variant of src/src/index.ts.  Its cursors are the  *)
(* ids themselves, its response has no totalCount.                         *)

\* deepMerge(target, source), for filter objects whose keys do not overlap:
\* the merged object asks for the fields of both.
deepMerge(target, source) ==
  IF source = Undefined THEN target
  ELSE IF target = EmptyFilter THEN source
  ELSE And(<<target, source>>)

\* SortOrderResult: sortOrder and key of the current fetch, prevKey and nextKey
\* of the probes.
QueryOrderById(query) ==
  LET desc == query.order = "desc" IN
  [query |-> query.order,
   sortOrder |-> IF IsSet(query.prevCursor) THEN (IF desc THEN 1 ELSE -1)
                 ELSE IF IsSet(query.nextCursor) THEN (IF desc THEN -1 ELSE 1)
                 ELSE (IF desc THEN -1 ELSE 1),
   key |-> IF IsSet(query.prevCursor) THEN (IF desc THEN "$gt" ELSE "$lt")
           ELSE IF IsSet(query.nextCursor) THEN (IF desc THEN "$lt" ELSE "$gt")
           ELSE (IF desc THEN "$gt" ELSE "$lt"),
   prevKey |-> IF desc THEN "$gt" ELSE "$lt",
   nextKey |-> IF desc THEN "$lt" ELSE "$gt"]

\* The cursor the variant filters by: prevCursor before nextCursor, '' if none.
QueryCursorById(query) ==
  IF IsSet(query.prevCursor) THEN query.prevCursor
  ELSE IF IsSet(query.nextCursor) THEN query.nextCursor
  ELSE EmptyString

\* _getQuery of index.ts.
_getQueryById(query, mergeFilters) ==
  LET order == QueryOrderById(query)
      cursor == QueryCursorById(query)
      _filter == IF cursor # EmptyString THEN Cmp("_id", order.key, cursor)
                 ELSE EmptyFilter
  IN [ty |-> "query", filter |-> deepMerge(_filter, mergeFilters),
      sort |-> << <<"_id", order.sortOrder>> >>, order |-> order,
      reverse |-> IsSet(query.prevCursor), limit |-> query.limit]

\* { ...opts.filters, _id: { [key]: id } }
ProbeFilterById(o, key, id) ==
  IF o.filters = Undefined THEN Cmp("_id", key, id)
  ELSE And(<<o.filters, Cmp("_id", key, id)>>)

\* The value the variant returns.
PaginatedById(data, hasNext, hasPrev) ==
  [data |-> data,
   nextCursor |-> IF hasNext THEN DocId(data[Len(data)]) ELSE Null,
   prevCursor |-> IF hasPrev THEN DocId(data[1]) ELSE Null]

\* paginate of index.ts on a collection nobody writes to while it runs.
paginateById(collection, o) ==
  LET q == _getQueryById(o.pagination, o.filters)
      fetched == FetchedDocs(collection, q)
  IN IF Len(fetched) = 0 THEN PaginatedById(fetched, FALSE, FALSE)
     ELSE PaginatedById(fetched,
            countDocuments(collection,
              ProbeFilterById(o, q.order.nextKey, DocId(fetched[Len(fetched)]))) # 0,
            countDocuments(collection,
              ProbeFilterById(o, q.order.prevKey, DocId(fetched[1]))) # 0)

---------------------------------------------------------------------------
VARIABLES
  store,       \* the documents of the collection
  config,      \* what the caller keeps fixed: filters, sortBy, parseSortValue
  opts,        \* the options of the call in progress
  pc,          \* where paginate stands: idle, find, countNext, countPrev, done, raised
  query,       \* the result of _getQuery
  docs,        \* the fetched documents
  nextCursor,  \* paginate's local nextCursor
  prevCursor,  \* paginate's local prevCursor
  totalCount,  \* paginate's local totalCount
  result,      \* the value the call returned (Null while it runs)
  held,        \* the cursors the caller took from the last response
  how,         \* how the caller formed the request in progress
  hist,        \* the caller's record of the pages it walked through
  variant,     \* which paginate is installed: "general" (deep-merge.ts) or "primaryKey" (index.ts)
  calls,       \* the store calls of the call in progress, in the order issued
  codec        \* cursors handed to encodeCursor and what decodeCursor made of the tokens
\* held and how also record the order and limit asked for, and chain: whether
\* the page was reached from a first page by returned cursors only.

vars == <<store, config, opts, pc, query, docs, nextCursor, prevCursor, totalCount,
          result, held, how, hist, variant, calls, codec>>

\* A store call as the log keeps it: issued and pending, answered, or failed.
Issued(op) == [op |-> op, status |-> "pending"]
Answered(log) == [log EXCEPT ![Len(log)].status = "ok"]
NoCodec == [stage |-> "none"]

\* Collections: documents with the ids 1..n, any sort field value and tag each.
\* (find and countDocuments only compare ids, so the ids in use may be taken
\* to be the first n.)
Collections ==
  UNION { { {[_id |-> ObjectId(k), f |-> s[k].f, tag |-> s[k].tag] : k \in 1 .. n} :
            s \in [1 .. n -> [f : FieldValues, tag : BOOLEAN]] } : n \in 0 .. MaxKey }

Configs == [filters : BaseFilters, sortBy : SortFields, parse : Parsers]

\* Tokens no paginate call returned.
ForeignTokens ==
  { NotBase64,
    Base64(NotJson),
    Base64(JsonText(Num(1))),
    Base64(JsonText([ty |-> "object", id |-> OtherString])) }

NoOpts ==
  [pagination |-> [order |-> "desc", limit |-> 1, sortBy |-> "_id",
                   nextCursor |-> Undefined, prevCursor |-> Undefined],
   filters |-> Undefined, parseSortValue |-> "none"]

NoHeld == [next |-> Null, prev |-> Null, order |-> "desc", limit |-> 1, chain |-> FALSE]
NoHow == [kind |-> "none", sameOrder |-> TRUE, sameLimit |-> TRUE, chain |-> FALSE]
\* hist: the order and limit of a walk; active and trail: the documents seen
\* since the first page while only nextCursor was followed; last, lastMove and
\* before: the last page, the move that led to it and the page it was reached
\* from; back and expect: the request in progress steps back over a forward
\* step, to the page expect.
\* alive: the selected documents that have been in the collection since the
\* walk began.
NoHist == [order |-> "desc", limit |-> 1, active |-> FALSE, trail |-> <<>>,
           lastMove |-> "none", last |-> <<>>, before |-> <<>>,
           back |-> FALSE, expect |-> <<>>, alive |-> {}]

\* One collection for each behaviour the calls can tell apart: the tag is read
\* only through the base filter, the sort field only of documents that match
\* and only with sortBy = f.  An unparsed cursor value is explored without a
\* base filter.
Relevant(S, c) ==
  /\ c.filters = Undefined => \A d \in S : d.tag
  /\ \A d \in S : ~d.tag => d.f = Null
  /\ c.sortBy = "_id" => (c.parse = "none" /\ \A d \in S : d.f = Null)
  /\ (c.sortBy # "_id" /\ c.parse = "none") => c.filters = Undefined

\* The collection and the configuration, and no call made yet.
Fresh ==
  /\ config \in Configs
  /\ store \in Collections
  /\ Relevant(store, config)
  /\ opts = NoOpts
  /\ pc = "idle"
  /\ query = Null
  /\ docs = <<>>
  /\ nextCursor = Null
  /\ prevCursor = Null
  /\ totalCount = 0
  /\ result = Null
  /\ held = NoHeld
  /\ how = NoHow
  /\ variant = "general"
  /\ calls = <<>>
  /\ codec = NoCodec

Init ==
  /\ Fresh
  /\ hist = NoHist

\* The same with the primary-key-only variant installed: it sorts by _id.
FreshById ==
  /\ config \in Configs
  /\ config.sortBy = "_id"
  /\ store \in Collections
  /\ Relevant(store, config)
  /\ opts = NoOpts
  /\ pc = "idle"
  /\ query = Null
  /\ docs = <<>>
  /\ nextCursor = Null
  /\ prevCursor = Null
  /\ totalCount = 0
  /\ result = Null
  /\ held = NoHeld
  /\ how = NoHow
  /\ variant = "primaryKey"
  /\ calls = <<>>
  /\ codec = NoCodec

\* The caller invokes paginate: _getQuery runs and find is issued.
Invoke(pagination, kind, walked) ==
  /\ pc = "idle"
  /\ LET o == [pagination |-> pagination, filters |-> config.filters,
               parseSortValue |-> config.parse]
         q == IF variant = "general"
                THEN _getQuery(o.pagination, o.parseSortValue, o.filters)
                ELSE _getQueryById(o.pagination, o.filters)
     IN /\ opts' = o
        /\ query' = q
        /\ pc' = IF q = Raised THEN "raised" ELSE "find"
        /\ calls' = IF q = Raised THEN <<>> ELSE <<Issued("find")>>
  /\ docs' = <<>>
  /\ nextCursor' = Null
  /\ prevCursor' = Null
  /\ totalCount' = 0
  /\ result' = Null
  /\ held' = NoHeld
  /\ how' = [kind |-> kind,
             sameOrder |-> (kind \in {"next", "prev"} => pagination.order = held.order),
             sameLimit |-> (kind \in {"next", "prev"} => pagination.limit = held.limit),
             chain |-> (kind = "initial" \/ (kind \in {"next", "prev"} /\ held.chain))]
  /\ hist' = walked
  /\ UNCHANGED <<store, config, variant, codec>>

\* find answers and the prev probe is issued even for an empty page.
FindDoneProbingEmpty ==
  /\ variant = "general"
  /\ pc = "find"
  /\ LET fetched == FetchedDocs(store, query)
         next0 == IF Len(fetched) = 0 THEN Null ELSE NextCandidate(opts, fetched)
     IN /\ docs' = fetched
        /\ totalCount' = Len(fetched)
        /\ nextCursor' = next0
        /\ prevCursor' = IF Len(fetched) # 0 /\ next0 = Null
                           THEN PrevCandidate(opts, fetched) ELSE Null
        /\ pc' = IF next0 # Null THEN "countNext" ELSE "countPrev"
        /\ result' = Null
        /\ calls' = IF next0 # Null
                        THEN Answered(calls) \o <<Issued("countNext")>>
                      ELSE Answered(calls) \o <<Issued("countPrev")>>
  /\ UNCHANGED <<store, config, opts, query, held, how, hist, variant, codec>>

\* find answers: reverse, set the next candidate, issue the first probe or return.
FindDone ==
  /\ variant = "general"
  /\ pc = "find"
  /\ LET fetched == FetchedDocs(store, query)
         next0 == IF Len(fetched) = 0 THEN Null ELSE NextCandidate(opts, fetched)
     IN /\ docs' = fetched
        /\ totalCount' = Len(fetched)
        /\ nextCursor' = next0
        /\ prevCursor' = IF Len(fetched) # 0 /\ next0 = Null
                           THEN PrevCandidate(opts, fetched) ELSE Null
        /\ pc' = IF Len(fetched) = 0 THEN "done"
                  ELSE IF next0 # Null THEN "countNext" ELSE "countPrev"
        /\ result' = IF Len(fetched) = 0
                       THEN Paginated(fetched, 0, Null, Null) ELSE Null
        /\ calls' = IF Len(fetched) = 0 THEN Answered(calls)
                      ELSE IF next0 # Null
                        THEN Answered(calls) \o <<Issued("countNext")>>
                      ELSE Answered(calls) \o <<Issued("countPrev")>>
  /\ UNCHANGED <<store, config, opts, query, held, how, hist, variant, codec>>

\* The next probe answers; the prev probe is issued.
NextCountDone ==
  /\ variant = "general"
  /\ pc = "countNext"
  /\ LET nextCount == countDocuments(store, ProbeFilter(opts, nextCursor, query.order.next))
     IN /\ nextCursor' = IF nextCount = 0 THEN Null ELSE nextCursor
        /\ totalCount' = totalCount + nextCount
  /\ prevCursor' = PrevCandidate(opts, docs)
  /\ pc' = "countPrev"
  /\ calls' = Answered(calls) \o <<Issued("countPrev")>>
  /\ UNCHANGED <<store, config, opts, query, docs, result, held, how, hist, variant, codec>>

\* The prev probe answers; paginate returns.
PrevCountDone ==
  /\ variant = "general"
  /\ pc = "countPrev"
  /\ LET prevCount == countDocuments(store, ProbeFilter(opts, prevCursor, query.order.prev))
         prev1 == IF prevCount = 0 THEN Null ELSE prevCursor
     IN /\ prevCursor' = prev1
        /\ totalCount' = totalCount + prevCount
        /\ result' = Paginated(docs, totalCount + prevCount, nextCursor, prev1)
  /\ pc' = "done"
  /\ calls' = Answered(calls)
  /\ UNCHANGED <<store, config, opts, query, docs, nextCursor, held, how, hist,
                 variant, codec>>

\* index.ts: find answers; the next probe is issued, or the empty page returned.
FindDoneById ==
  /\ variant = "primaryKey"
  /\ pc = "find"
  /\ LET fetched == FetchedDocs(store, query)
     IN /\ docs' = fetched
        /\ pc' = IF Len(fetched) = 0 THEN "done" ELSE "countNext"
        /\ result' = IF Len(fetched) = 0
                       THEN PaginatedById(fetched, FALSE, FALSE) ELSE Null
        /\ calls' = IF Len(fetched) = 0 THEN Answered(calls)
                      ELSE Answered(calls) \o <<Issued("countNext")>>
  /\ UNCHANGED <<store, config, opts, query, nextCursor, prevCursor, totalCount,
                 held, how, hist, variant, codec>>

\* index.ts: the next probe answers (hasNext); the prev probe is issued.
NextCountDoneById ==
  /\ variant = "primaryKey"
  /\ pc = "countNext"
  /\ nextCursor' = Bool(countDocuments(store,
                      ProbeFilterById(opts, query.order.nextKey,
                                      DocId(docs[Len(docs)]))) # 0)
  /\ pc' = "countPrev"
  /\ calls' = Answered(calls) \o <<Issued("countPrev")>>
  /\ UNCHANGED <<store, config, opts, query, docs, prevCursor, totalCount, result,
                 held, how, hist, variant, codec>>

\* index.ts: the prev probe answers (hasPrev); paginate returns.
PrevCountDoneById ==
  /\ variant = "primaryKey"
  /\ pc = "countPrev"
  /\ LET hasPrev == countDocuments(store,
                      ProbeFilterById(opts, query.order.prevKey, DocId(docs[1]))) # 0
     IN /\ prevCursor' = Bool(hasPrev)
        /\ result' = PaginatedById(docs, nextCursor.b, hasPrev)
  /\ pc' = "done"
  /\ calls' = Answered(calls)
  /\ UNCHANGED <<store, config, opts, query, docs, nextCursor, totalCount,
                 held, how, hist, variant, codec>>

\* What the store fails with, and the rejection paginate ends in.
StoreErrors == {[ty |-> "error", name |-> "timeout"], [ty |-> "error", name |-> "connection"]}
Rejection(e) == [ty |-> "rejected", error |-> e]
Failed(log, e) ==
  [log EXCEPT ![Len(log)] = [op |-> @.op, status |-> "failed", error |-> e]]

\* The pending store call (find or a count) fails: the await throws, paginate
\* has no handler and rejects with the store's error.
StoreCallFails(at) ==
  /\ pc = at
  /\ \E e \in StoreErrors :
       /\ result' = Rejection(e)
       /\ calls' = Failed(calls, e)
  /\ pc' = "failed"
  /\ UNCHANGED <<store, config, opts, query, docs, nextCursor, prevCursor, totalCount,
                 held, how, hist, variant, codec>>

\* find issued again after it failed.
FindFailsRetried ==
  /\ pc = "find"
  /\ \E e \in StoreErrors : calls' = Failed(calls, e) \o <<Issued("find")>>
  /\ UNCHANGED <<store, config, opts, pc, query, docs, nextCursor, prevCursor,
                 totalCount, result, held, how, hist, variant, codec>>

FindFails == StoreCallFails("find")
NextCountFails == StoreCallFails("countNext")
PrevCountFails == StoreCallFails("countPrev")

\* The caller reads the response (or catches the exception) and keeps the
\* cursors of the page, with the order and limit it asked for.
Receive(walked) ==
  /\ pc \in {"done", "raised"}
  /\ held' = IF pc = "done"
               THEN [next |-> result.nextCursor, prev |-> result.prevCursor,
                     order |-> opts.pagination.order, limit |-> opts.pagination.limit,
                     chain |-> how.chain]
               ELSE NoHeld
  /\ pc' = "idle"
  /\ opts' = NoOpts
  /\ query' = Null
  /\ docs' = <<>>
  /\ nextCursor' = Null
  /\ prevCursor' = Null
  /\ totalCount' = 0
  /\ result' = Null
  /\ how' = NoHow
  /\ hist' = walked
  /\ calls' = <<>>
  /\ UNCHANGED <<store, config, variant, codec>>

Keep == Receive(hist)

\* The call is over and the caller keeps nothing of it.
Over(ends) ==
  /\ pc \in ends
  /\ pc' = "idle"
  /\ opts' = NoOpts
  /\ query' = Null
  /\ docs' = <<>>
  /\ nextCursor' = Null
  /\ prevCursor' = Null
  /\ totalCount' = 0
  /\ result' = Null
  /\ held' = NoHeld
  /\ how' = NoHow
  /\ calls' = <<>>
  /\ UNCHANGED <<store, config, hist, variant, codec>>

\* The caller catches the rejection of a failed store call and starts over.
Catch == Over({"failed"})

\* The caller reads the response, or catches what decodeCursor threw, and
\* starts over with a request of its own.
Forget == Over({"done", "raised"})

Pagination(order, limit, next, prev) ==
  [order |-> order, limit |-> limit, sortBy |-> config.sortBy,
   nextCursor |-> next, prevCursor |-> prev]

\* The caller asks for the first page.
RequestInitial ==
  \E order \in Orders, limit \in Limits :
    Invoke(Pagination(order, limit, Undefined, Undefined), "initial", hist)

\* The caller asks for the page after a returned nextCursor, at any order and limit.
RequestNext ==
  \E order \in Orders, limit \in Limits :
    /\ held.next # Null
    /\ Invoke(Pagination(order, limit, held.next, Undefined), "next", hist)

\* The caller asks for the page before a returned prevCursor, at any order and limit.
RequestPrev ==
  \E order \in Orders, limit \in Limits :
    /\ held.prev # Null
    /\ Invoke(Pagination(order, limit, Undefined, held.prev), "prev", hist)

\* The caller passes a token no call returned as nextCursor.
RequestForeignNext ==
  \E order \in Orders, limit \in Limits, t \in ForeignTokens \cup {EmptyString} :
    Invoke(Pagination(order, limit, t, Undefined), "foreignNext", hist)

\* The caller passes a token no call returned as prevCursor.
RequestForeignPrev ==
  \E order \in Orders, limit \in Limits, t \in ForeignTokens :
    Invoke(Pagination(order, limit, Undefined, t), "foreignPrev", hist)

Next ==
  \/ RequestInitial
  \/ RequestNext
  \/ RequestPrev
  \/ RequestForeignNext
  \/ RequestForeignPrev
  \/ FindDone
  \/ NextCountDone
  \/ PrevCountDone
  \/ Keep

Spec == Init /\ [][Next]_vars

\* A caller that follows no returned cursor: first pages and tokens of its own.
NextTokens ==
  \/ RequestInitial
  \/ RequestForeignNext
  \/ RequestForeignPrev
  \/ FindDone
  \/ NextCountDone
  \/ PrevCountDone
  \/ Keep

SpecTokens == Init /\ [][NextTokens]_vars

---------------------------------------------------------------------------
(* Requests that carry both cursors, to either variant.                    *)

\* The cursor string a response carries for document d.
TokenOf(d) ==
  IF variant = "general"
    THEN encodeCursor([id |-> DocId(d),
                       v |-> IF config.sortBy # "_id" THEN stringifySortValue(d.f)
                             ELSE Undefined])
    ELSE DocId(d)

InitBoth ==
  /\ Fresh \/ FreshById
  /\ hist = NoHist

\* prevCursor: the cursor of a document, or a string that does not decode.
\* nextCursor: the cursor of the first document, or a string decodeCursor would
\* throw on (index.ts: a string that is no id).
RequestBoth ==
  \E order \in Orders, limit \in Limits,
     prev \in {TokenOf(d) : d \in store}
                \cup (IF variant = "general" THEN {NotBase64} ELSE {}),
     next \in {TokenOf(d) : d \in {e \in store : e._id.k = 1}}
                \cup (IF variant = "general" THEN {Base64(NotJson)} ELSE {OtherString}) :
    Invoke(Pagination(order, limit, next, prev), "both", hist)

NextBoth ==
  \/ RequestBoth
  \/ FindDone
  \/ NextCountDone
  \/ PrevCountDone
  \/ FindDoneById
  \/ NextCountDoneById
  \/ PrevCountDoneById
  \/ Forget

SpecBoth == InitBoth /\ [][NextBoth]_vars

---------------------------------------------------------------------------
(* Single requests at any position: with the cursor of any document of the *)
(* collection (selected or not, at the end or not), to either variant, or  *)
(* with a string no call returned.                                         *)

\* The caller asks for the page after document d.
RequestAfter ==
  \E order \in Orders, limit \in Limits, d \in store :
    Invoke(Pagination(order, limit, TokenOf(d), Undefined), "after", hist)

\* The caller asks for the page before document d.
RequestBefore ==
  \E order \in Orders, limit \in Limits, d \in store :
    Invoke(Pagination(order, limit, Undefined, TokenOf(d)), "before", hist)

\* Strings that are no cursor go to the variant that decodes its cursors.
RequestUndecodableNext == variant = "general" /\ RequestForeignNext
RequestUndecodablePrev == variant = "general" /\ RequestForeignPrev

NextAny ==
  \/ RequestInitial
  \/ RequestAfter
  \/ RequestBefore
  \/ RequestUndecodableNext
  \/ RequestUndecodablePrev
  \/ FindDone
  \/ NextCountDone
  \/ PrevCountDone
  \/ FindDoneById
  \/ NextCountDoneById
  \/ PrevCountDoneById
  \/ Forget

SpecAny == InitBoth /\ [][NextAny]_vars

---------------------------------------------------------------------------
(* The codec on its own: cursors are encoded, the tokens decoded.          *)

\* DecodedCursor values: the id of a document, v absent or a text.
TextValues == {Str(n) : n \in 1 .. MaxVal} \cup {OtherString, EmptyString, HexString(1)}
DecodedCursors == [id : {HexString(k) : k \in Keys}, v : {Undefined} \cup TextValues]

InitCodec ==
  /\ Init
  /\ store = {}
  /\ config = [filters |-> Undefined, sortBy |-> "_id", parse |-> "none"]

\* Two cursors are encoded.
EncodeCursors ==
  /\ codec.stage = "none"
  /\ \E a, b \in DecodedCursors :
       codec' = [stage |-> "encoded", a |-> a, b |-> b,
                 ta |-> encodeCursor(a), tb |-> encodeCursor(b)]
  /\ UNCHANGED <<store, config, opts, pc, query, docs, nextCursor, prevCursor,
                 totalCount, result, held, how, hist, variant, calls>>

\* The two tokens are decoded.
DecodeCursors ==
  /\ codec.stage = "encoded"
  /\ codec' = [codec EXCEPT !.stage = "decoded"] @@
                 [da |-> decodeCursor(codec.ta), db |-> decodeCursor(codec.tb)]
  /\ UNCHANGED <<store, config, opts, pc, query, docs, nextCursor, prevCursor,
                 totalCount, result, held, how, hist, variant, calls>>

NextCodec ==
  \/ EncodeCursors
  \/ DecodeCursors

SpecCodec == InitCodec /\ [][NextCodec]_vars

---------------------------------------------------------------------------
(* A caller that walks the collection page by page, at one order and limit. *)

InitWalk ==
  /\ Fresh
  /\ \E order \in Orders, limit \in Limits :
       hist = [NoHist EXCEPT !.order = order, !.limit = limit]

\* The walk starts (again) at the first page.
WalkFirst ==
  Invoke(Pagination(hist.order, hist.limit, Undefined, Undefined), "initial",
         [hist EXCEPT !.active = TRUE, !.trail = <<>>, !.back = FALSE, !.expect = <<>>])

\* The walk follows the nextCursor of the last page.
WalkNext ==
  /\ held.next # Null
  /\ Invoke(Pagination(hist.order, hist.limit, held.next, Undefined), "next",
            [hist EXCEPT !.back = FALSE, !.expect = <<>>])

\* The walk follows the prevCursor of the last page.
WalkPrev ==
  /\ held.prev # Null
  /\ Invoke(Pagination(hist.order, hist.limit, Undefined, held.prev), "prev",
            [hist EXCEPT !.active = FALSE, !.trail = <<>>,
                         !.back = (hist.lastMove = "next"),
                         !.expect = IF hist.lastMove = "next" THEN hist.before ELSE <<>>])

\* The caller reads the page and notes it.
KeepPage ==
  Receive([hist EXCEPT !.trail = IF hist.active THEN hist.trail \o result.data ELSE <<>>,
                       !.before = hist.last,
                       !.last = result.data,
                       !.lastMove = how.kind,
                       !.back = FALSE,
                       !.expect = <<>>])

NextWalk ==
  \/ WalkFirst
  \/ WalkNext
  \/ WalkPrev
  \/ FindDone
  \/ NextCountDone
  \/ PrevCountDone
  \/ KeepPage

SpecWalk == InitWalk /\ [][NextWalk]_vars

---------------------------------------------------------------------------
(* The walk of either variant against a store whose calls can fail.        *)

InitStore ==
  /\ Fresh \/ FreshById
  /\ \E order \in Orders, limit \in Limits :
       hist = [NoHist EXCEPT !.order = order, !.limit = limit]

NextStore ==
  \/ WalkFirst
  \/ WalkNext
  \/ WalkPrev
  \/ FindDone
  \/ NextCountDone
  \/ PrevCountDone
  \/ FindDoneById
  \/ NextCountDoneById
  \/ PrevCountDoneById
  \/ FindFails
  \/ NextCountFails
  \/ PrevCountFails
  \/ Keep
  \/ Catch

SpecStore == InitStore /\ [][NextStore]_vars

---------------------------------------------------------------------------
(* The walk along nextCursor while other processes insert and delete.      *)

\* The documents other processes write: any _id, sorted by _id only.
Writable == {d \in Documents : d.f = Null /\ (config.filters = Undefined => d.tag)}

InitWrites ==
  /\ Fresh
  /\ config.sortBy = "_id"
  /\ \E order \in Orders, limit \in Limits :
       hist = [NoHist EXCEPT !.order = order, !.limit = limit]

\* Another process inserts a document whose _id is not in the collection.
Insert ==
  \E d \in Writable :
    /\ \A e \in store : e._id # d._id
    /\ store' = store \cup {d}
    /\ UNCHANGED <<config, opts, pc, query, docs, nextCursor, prevCursor, totalCount,
                   result, held, how, hist, variant, calls, codec>>

\* Another process deletes a document.
Delete ==
  \E d \in store :
    /\ store' = store \ {d}
    /\ hist' = [hist EXCEPT !.alive = @ \ {d}]
    /\ UNCHANGED <<config, opts, pc, query, docs, nextCursor, prevCursor, totalCount,
                   result, held, how, variant, calls, codec>>

\* The walk starts at the first page; the documents selected now are alive.
WalkFirstLive ==
  Invoke(Pagination(hist.order, hist.limit, Undefined, Undefined), "initial",
         [hist EXCEPT !.active = TRUE, !.trail = <<>>,
                      !.alive = {d \in store : config.filters = Undefined \/ d.tag}])

\* The caller reads the page and adds it to the documents it has seen.
KeepLive ==
  Receive([hist EXCEPT !.trail = IF hist.active THEN hist.trail \o result.data ELSE <<>>])

NextWrites ==
  \/ WalkFirstLive
  \/ WalkNext
  \/ FindDone
  \/ NextCountDone
  \/ PrevCountDone
  \/ KeepLive
  \/ Insert
  \/ Delete

SpecWrites == InitWrites /\ [][NextWrites]_vars

---------------------------------------------------------------------------
(* What the caller asked for, stated on the collection itself.             *)

\* The documents the caller's filter selects.
Selected == {d \in store : config.filters = Undefined \/ d.tag}

\* a comes strictly before b in the order the call asked for: by the sort
\* field (null first when ascending), then by _id, both in the same direction.
Rank(d) == IF config.sortBy = "_id" \/ d.f = Null THEN 0 ELSE d.f.n
InRequestedOrder(a, b) ==
  IF opts.pagination.order = "asc"
    THEN Rank(a) < Rank(b) \/ (Rank(a) = Rank(b) /\ a._id.k < b._id.k)
    ELSE Rank(a) > Rank(b) \/ (Rank(a) = Rank(b) /\ a._id.k > b._id.k)

Returned == pc = "done"
FirstOfPage == result.data[1]
LastOfPage == result.data[Len(result.data)]

\* The call asked for the first page, or followed a cursor of the last page in
\* that page's order, the last page itself reached that way.
Followed == how.kind \in {"initial", "next", "prev"} /\ how.sameOrder /\ how.chain

\* C2: on an unchanging store the totalCount of every page (the first, or one
\* reached with a returned cursor, at any limit) is the number of documents the
\* filter selects.  Stated for sortBy = _id and the order of the page the
\* cursor came from.
C2_TotalCountExact ==
  (Returned /\ Followed /\ config.sortBy = "_id")
    => result.totalCount = Cardinality(Selected)

\* C3: for a call that fetched documents, nextCursor is null exactly when no
\* selected document comes after the last one of the page.  Stated for
\* sortBy = _id and the order of the page the cursor came from.
C3_NextCursorBoundary ==
  (Returned /\ Followed /\ config.sortBy = "_id" /\ Len(result.data) > 0)
    => (result.nextCursor = Null
          <=> ~\E d \in Selected : InRequestedOrder(LastOfPage, d))

\* C4: for a call that fetched documents, prevCursor is null exactly when no
\* selected document comes before the first one of the page.  Stated for the
\* calls whose cursor value the parser restores.
C4_PrevCursorBoundary ==
  (Returned /\ Followed /\ Len(result.data) > 0
     /\ (config.sortBy = "_id" \/ config.parse = "Number"))
    => (result.prevCursor = Null
          <=> ~\E d \in Selected : InRequestedOrder(d, FirstOfPage))

\* The same call without its cursors: the initial request.
InitialOpts ==
  [opts EXCEPT !.pagination.nextCursor = Undefined, !.pagination.prevCursor = Undefined]

\* C8: a call whose prevCursor decodes to absent returns what the initial
\* request returns.
C8_InvalidPrevIsInitial ==
  (Returned /\ IsSet(opts.pagination.prevCursor)
     /\ decodeCursor(opts.pagination.prevCursor) = Null)
    => result = paginate(store, InitialOpts)

\* C9: a call without prevCursor whose nextCursor decodes to absent returns
\* what the initial request returns: the same data, cursors and totalCount.
C9_InvalidNextIsInitial ==
  (Returned /\ ~IsSet(opts.pagination.prevCursor) /\ IsSet(opts.pagination.nextCursor)
     /\ decodeCursor(opts.pagination.nextCursor) = Null)
    => result = paginate(store, InitialOpts)

C9_Witness ==
  /\ Returned
  /\ ~IsSet(opts.pagination.prevCursor)
  /\ IsSet(opts.pagination.nextCursor)
  /\ decodeCursor(opts.pagination.nextCursor) = Null
  /\ Len(result.data) = 2
  /\ result.nextCursor # Null

\* The documents of the walk so far, the page just returned included.
Walked == hist.trail \o result.data

\* The walk so far lists selected documents in the requested order, leaves out
\* none that comes before its last one, moved on if it followed a cursor, and
\* is complete once nextCursor is null.
WalkCorrect ==
  /\ \A i \in 1 .. Len(Walked) : Walked[i] \in Selected
  /\ \A i \in 1 .. Len(Walked) - 1 : InRequestedOrder(Walked[i], Walked[i + 1])
  /\ \A d \in Selected :
       (\E i \in 1 .. Len(Walked) : Walked[i] = d)
         \/ (Len(Walked) > 0 /\ InRequestedOrder(Walked[Len(Walked)], d))
  /\ how.kind = "next" => Len(result.data) > 0
  /\ result.nextCursor = Null => {Walked[i] : i \in 1 .. Len(Walked)} = Selected

\* C1: with sortBy = _id, a walk from the first page along nextCursor visits
\* every selected document exactly once, in the requested order, and ends
\* with nextCursor = null.
C1_TraversalComplete ==
  (Returned /\ hist.active /\ config.sortBy = "_id") => WalkCorrect

C1_Witness ==
  /\ Returned /\ hist.active /\ config.sortBy = "_id"
  /\ result.nextCursor = Null
  /\ Len(hist.trail) = 2
  /\ Len(result.data) = 1

\* C5: while other processes insert and delete between the calls and between
\* the find and the counts of a call, a walk along nextCursor (sortBy = _id)
\* returns no document on two pages, and once nextCursor is null it has
\* returned every selected document that was there during the whole walk.
C5_WalkUnderWrites ==
  (Returned /\ hist.active)
    => /\ \A i, j \in 1 .. Len(Walked) : i # j => Walked[i]._id # Walked[j]._id
       /\ result.nextCursor = Null
            => hist.alive \subseteq {Walked[i] : i \in 1 .. Len(Walked)}

C5_Witness ==
  /\ Returned /\ hist.active
  /\ result.nextCursor = Null
  /\ Len(hist.trail) >= 1
  /\ Len(result.data) >= 1
  /\ hist.alive # {}
  /\ \E i \in 1 .. Len(Walked) : Walked[i] \notin store
  /\ \E d \in Selected : \A i \in 1 .. Len(Walked) : Walked[i] # d

\* C6: the page before a page reached by nextCursor, asked for with that
\* page's prevCursor, is the page the nextCursor came from, document for
\* document.
C6_BackStepRoundTrip ==
  (Returned /\ hist.back) => result.data = hist.expect

\* Every selected document has a sort value and the parser restores it.
SortValuesUsable ==
  /\ config.sortBy = "f"
  /\ config.parse = "Number"
  /\ \A d \in Selected : d.f # Null

\* C7: with a secondary sortBy whose values repeat, a walk along nextCursor
\* visits every selected document exactly once, by sort value and, among equal
\* values, by _id in the same direction.
C7_TieBreak ==
  (Returned /\ hist.active /\ SortValuesUsable) => WalkCorrect

C7_Witness ==
  /\ Returned /\ hist.active /\ SortValuesUsable
  /\ result.nextCursor = Null
  /\ Len(hist.trail) >= 2
  /\ Len(result.data) >= 1
  /\ hist.trail[Len(hist.trail)].f = result.data[1].f
  /\ \E i \in 1 .. Len(hist.trail) : hist.trail[i].f # result.data[1].f

\* C10: no cursor token makes decodeCursor, and with it paginate, raise.
C10_DecodeNeverRaises == pc # "raised"

\* C11: decodeCursor(encodeCursor(c)) = c for every valid decoded cursor c, and
\* distinct cursors get distinct tokens.
C11_CodecRoundTrip ==
  codec.stage = "decoded"
    => /\ codec.da = codec.a
       /\ codec.db = codec.b
       /\ codec.a # codec.b => codec.ta # codec.tb

C11_Witness ==
  /\ codec.stage = "decoded"
  /\ codec.a.id = codec.b.id
  /\ codec.a.v = Undefined
  /\ codec.b.v = Str(1)
  /\ codec.db = codec.b

\* The request in progress without its nextCursor.
WithoutNextCursor == [opts EXCEPT !.pagination.nextCursor = Undefined]

\* C12: a request with both cursors gets the query (filter, sort, reversal) and
\* the result of the same request without nextCursor, whatever nextCursor is;
\* in particular an undecodable nextCursor is never decoded.
C12_PrevCursorPrecedence ==
  how.kind = "both"
    => /\ pc # "raised"
       /\ pc = "find" =>
            query = IF variant = "general"
                      THEN _getQuery(WithoutNextCursor.pagination,
                                     opts.parseSortValue, opts.filters)
                      ELSE _getQueryById(WithoutNextCursor.pagination, opts.filters)
       /\ Returned =>
            result = IF variant = "general" THEN paginate(store, WithoutNextCursor)
                     ELSE paginateById(store, WithoutNextCursor)

C12_Witness ==
  /\ Returned /\ how.kind = "both" /\ variant = "general"
  /\ decodeCursor(opts.pagination.prevCursor) # Null
  /\ decodeCursor(opts.pagination.nextCursor) # Null
  /\ opts.pagination.prevCursor # opts.pagination.nextCursor
  /\ Len(result.data) >= 1
  /\ result.nextCursor # Null

\* The entries of the call log for one kind of store call.
CallsOf(op) == {i \in 1 .. Len(calls) : calls[i].op = op}

\* C13: a failed store call ends paginate with that call's failure and without
\* a result; a failed find is followed by no count; no call is issued after a
\* failed one, and none a second time.
C13_FailurePropagates ==
  /\ \A i \in 1 .. Len(calls) : calls[i].status = "failed" => i = Len(calls)
  /\ \A op \in {"find", "countNext", "countPrev"} : Cardinality(CallsOf(op)) <= 1
  /\ pc = "failed" =>
       /\ calls # <<>>
       /\ calls[Len(calls)].status = "failed"
       /\ result = Rejection(calls[Len(calls)].error)
       /\ calls[Len(calls)].op = "find" => Len(calls) = 1
  /\ (calls # <<>> /\ calls[Len(calls)].status = "failed") => pc = "failed"

C13_Witness ==
  /\ pc = "failed"
  /\ variant = "general"
  /\ Len(calls) = 3
  /\ calls[3].op = "countPrev"
  /\ result = Rejection([ty |-> "error", name |-> "timeout"])

\* C14: every call of paginate issues one find, first; counts only once the
\* find has answered, at most one for each side; and it returns only when every
\* call it issued has answered.
C14_StoreCallOrder ==
  pc # "idle"
    => /\ CallsOf("find") = {1}
       /\ Len(calls) > 1 => calls[1].status = "ok"
       /\ Cardinality(CallsOf("countNext")) <= 1
       /\ Cardinality(CallsOf("countPrev")) <= 1
       /\ Len(calls) <= 3
       /\ \A i \in 1 .. Len(calls) - 1 : calls[i].status = "ok"
       /\ Returned => \A i \in 1 .. Len(calls) : calls[i].status = "ok"

CursorId(token) == IF variant = "general" THEN decodeCursor(token).id ELSE token

\* C17: a returned nextCursor names the last document of data, a returned
\* prevCursor the first, also after the reversal of a backward fetch.
C17_CursorsAtPageEdges ==
  Returned
    => /\ result.nextCursor # Null
            => (result.data # <<>> /\ CursorId(result.nextCursor) = DocId(LastOfPage))
       /\ result.prevCursor # Null
            => (result.data # <<>> /\ CursorId(result.prevCursor) = DocId(FirstOfPage))

C17_Witness ==
  /\ Returned
  /\ how.kind = "before"
  /\ Len(result.data) = 2
  /\ result.nextCursor # Null
  /\ opts.pagination.order = "desc"

\* The traversal mode of the request in progress.
Mode ==
  IF IsSet(opts.pagination.prevCursor) THEN "backward"
  ELSE IF IsSet(opts.pagination.nextCursor) THEN "forward"
  ELSE "initial"

\* The <<sort direction, operator>> pair resolved for the current fetch.
CurrentPair ==
  IF variant = "general" THEN query.order.current
  ELSE <<query.order.sortOrder, query.order.key>>

\* C18: the pair and the reverse flag resolved for the current fetch are, for
\* desc: initial and forward <<descending, $lt>>, backward <<ascending, $gt>>;
\* for asc: initial and forward <<ascending, $gt>>, backward <<descending, $lt>>;
\* reversed exactly when backward.
C18_DirectionTable ==
  pc = "find"
    => /\ CurrentPair =
            IF opts.pagination.order = "desc"
              THEN (IF Mode = "backward" THEN <<1, "$gt">> ELSE <<-1, "$lt">>)
              ELSE (IF Mode = "backward" THEN <<-1, "$lt">> ELSE <<1, "$gt">>)
       /\ query.reverse = (Mode = "backward")

\* C19: the pairs resolved for the probes depend on order alone: for desc,
\* next = <<descending, $lt>> and prev = <<ascending, $gt>>; for asc,
\* next = <<ascending, $gt>> and prev = <<descending, $lt>>.  (index.ts
\* resolves the two operators only.)
C19_ProbePairs ==
  pc = "find"
    => IF variant = "general"
         THEN /\ query.order.next =
                   IF opts.pagination.order = "desc" THEN <<-1, "$lt">> ELSE <<1, "$gt">>
              /\ query.order.prev =
                   IF opts.pagination.order = "desc" THEN <<1, "$gt">> ELSE <<-1, "$lt">>
         ELSE /\ query.order.nextKey =
                   IF opts.pagination.order = "desc" THEN "$lt" ELSE "$gt"
              /\ query.order.prevKey =
                   IF opts.pagination.order = "desc" THEN "$gt" ELSE "$lt"

\* The request in progress as the primary-key-only variant takes it: the
\* cursors are the ids the tokens encode.
RawKey(token) == IF IsSet(token) THEN decodeCursor(token).id ELSE token
ByIdOpts ==
  [opts EXCEPT !.pagination.nextCursor = RawKey(@),
               !.pagination.prevCursor = RawKey(@)]

\* C20: with sortBy = _id and the same collection, filter, order, limit and
\* cursor position, the general variant returns the data of the primary-key-only
\* variant, a null nextCursor and a null prevCursor exactly when that one
\* does, and cursors that name the same documents.
C20_VariantsAgree ==
  (variant = "general" /\ Returned /\ config.sortBy = "_id"
     /\ how.kind \in {"initial", "after", "before"})
    => LET byId == paginateById(store, ByIdOpts) IN
       /\ result.data = byId.data
       /\ (result.nextCursor = Null) = (byId.nextCursor = Null)
       /\ (result.prevCursor = Null) = (byId.prevCursor = Null)
       /\ result.nextCursor # Null => decodeCursor(result.nextCursor).id = byId.nextCursor
       /\ result.prevCursor # Null => decodeCursor(result.prevCursor).id = byId.prevCursor

\* C21: on an unchanging store the data of every response holds at most limit
\* documents, all selected by the base filter, in the requested order (sort
\* field, then _id), each followed by the selected document that comes next in
\* that order: a run without gap or repeat.
C21_PageShape ==
  Returned
    => /\ Len(result.data) <= opts.pagination.limit
       /\ \A i \in 1 .. Len(result.data) : result.data[i] \in Selected
       /\ \A i \in 1 .. Len(result.data) - 1 :
            /\ InRequestedOrder(result.data[i], result.data[i + 1])
            /\ ~\E d \in Selected : /\ InRequestedOrder(result.data[i], d)
                                     /\ InRequestedOrder(d, result.data[i + 1])

\* A returned cursor carries the sort value.
CarriesSortValue(token) == decodeCursor(token).v # Undefined

\* C22: a cursor paginate returns carries v exactly when sortBy is not _id,
\* whatever the sort field of the boundary document holds, and a request that
\* follows a returned cursor with a secondary sortBy filters by the composite
\* (sort field, _id) predicate.
C22_CursorCarriesSortValue ==
  variant = "general"
    => /\ Returned =>
            /\ result.nextCursor # Null
                 => (CarriesSortValue(result.nextCursor) <=> config.sortBy # "_id")
            /\ result.prevCursor # Null
                 => (CarriesSortValue(result.prevCursor) <=> config.sortBy # "_id")
       /\ (pc = "find" /\ how.kind \in {"next", "prev"} /\ config.sortBy # "_id")
            => query.cursor.v # Undefined

====
